---- MODULE Spec2Model ----
(***************************************************************************)
(* Model of tensorbackends/utils/einstr.py: the einsum-style subscript     *)
(* engine (parse, match, the three family validators, split_einsumsvd and  *)
(* OutputTerm.newshape).                                                   *)
(*                                                                         *)
(* A subscript string is a sequence of one-character strings.  An index is *)
(* a natural number; the Python object Ellipsis is the value Ellipsis.     *)
(* A raised ValueError is a result with ok = FALSE and err naming the      *)
(* raise site.                                                             *)
(***************************************************************************)
EXTENDS Integers, Sequences, FiniteSets, TLC

(* ---------------------------------------------------------------- bounds *)
\* longest term of a generated subscript string, in tokens
MaxLen == 2
\* largest operand rank (ndim) tried
MaxRank == 3
\* largest number of axes of a generated output term with fusing groups
MaxAxes == 2
\* longest broadcast run of the generated calls
MaxRun == 3
\* longest generated string given to parse alone, in tokens
MaxTokens == 5

(* ------------------------------------------------------- program values *)
\* len(chars): chars = string.ascii_letters
NChars == 52
\* the Ellipsis object stored in an unexpanded term
Ellipsis == -1

(* ------------------------------------------------------- sequence helpers *)
Range(s) == {s[k] : k \in 1..Len(s)}

RECURSIVE Flatten(_)
\* itertools.chain.from_iterable
Flatten(ss) == IF ss = <<>> THEN <<>> ELSE Head(ss) \o Flatten(Tail(ss))

RECURSIVE Product(_)
\* functools.reduce(operator.mul, xs, 1)
Product(xs) == IF xs = <<>> THEN 1 ELSE Head(xs) * Product(Tail(xs))

SetMax(S) == CHOOSE m \in S : \A x \in S : x <= m

\* s[i:].startswith(p), i a 1-based position
startswith(s, i, p) ==
    /\ i + Len(p) - 1 <= Len(s)
    /\ SubSeq(s, i, i + Len(p) - 1) = p

\* first position >= from at which sep occurs in s, 0 when there is none
find(s, sep, from) ==
    LET hits == {k \in from..Len(s) : startswith(s, k, sep)}
    IN  IF hits = {} THEN 0 ELSE CHOOSE k \in hits : \A h \in hits : k <= h

RECURSIVE split(_, _)
\* str.split(sep)
split(s, sep) ==
    LET k == find(s, sep, 1)
    IN  IF k = 0 THEN <<s>>
        ELSE <<SubSeq(s, 1, k - 1)>> \o split(SubSeq(s, k + Len(sep), Len(s)), sep)

\* re.sub(r'\s', '', subscripts)
strip_space(s) == SelectSeq(s, LAMBDA c : c # " ")

(* ------------------------------------------------------ the symbol table *)
\* mapping is the dict of parse, kept as the sequence of its keys in
\* insertion order: the value of key mapping[k] is k - 1.
lookup(mapping, c) == (CHOOSE k \in 1..Len(mapping) : mapping[k] = c) - 1

\* mapping.setdefault(c, len(mapping)): the dict afterwards
setdefault(mapping, c) ==
    IF c \in Range(mapping) THEN mapping ELSE Append(mapping, c)

(* ------------------------------------------------------- InputTerm.parse *)
TermFail(mapping, why) ==
    [ok |-> FALSE, indices |-> <<>>, fusing |-> <<>>, mapping |-> mapping, err |-> why]

RECURSIVE InputTerm_parse_loop(_, _, _, _, _)
InputTerm_parse_loop(s, i, indices, found_ellipsis, mapping) ==
    IF i > Len(s)
    THEN [ok |-> TRUE, indices |-> indices, fusing |-> <<>>,
          mapping |-> mapping, err |-> ""]
    ELSE IF startswith(s, i, <<".", ".", ".">>)
    THEN IF found_ellipsis
         THEN TermFail(mapping, "each term can contain at most one ellipsis")
         ELSE InputTerm_parse_loop(s, i + 3, Append(indices, Ellipsis), TRUE, mapping)
    ELSE IF s[i] \in {"(", ")"}
    THEN TermFail(mapping, "indices fusing is not allowed in input subscripts")
    ELSE LET m2 == setdefault(mapping, s[i])
         IN  InputTerm_parse_loop(s, i + 1, Append(indices, lookup(m2, s[i])),
                                  found_ellipsis, m2)

InputTerm_parse(s, mapping) == InputTerm_parse_loop(s, 1, <<>>, FALSE, mapping)

(* ------------------------------------------------------ OutputTerm.parse *)
\* start = -1 stands for start is None
RECURSIVE OutputTerm_parse_loop(_, _, _, _, _, _, _)
OutputTerm_parse_loop(s, i, indices, fusing, found_ellipsis, start, mapping) ==
    IF i > Len(s)
    THEN IF start # -1
         THEN TermFail(mapping, "unmatched parentheses")
         ELSE [ok |-> TRUE, indices |-> indices, fusing |-> fusing,
               mapping |-> mapping, err |-> ""]
    ELSE IF startswith(s, i, <<".", ".", ".">>)
    THEN IF found_ellipsis
         THEN TermFail(mapping, "each term can contain at most one ellipsis")
         ELSE OutputTerm_parse_loop(s, i + 3, Append(indices, Ellipsis), fusing,
                                    TRUE, start, mapping)
    ELSE IF s[i] = "("
    THEN IF start # -1
         THEN TermFail(mapping, "nested parentheses are not allowed")
         ELSE OutputTerm_parse_loop(s, i + 1, indices, fusing, found_ellipsis,
                                    Len(indices), mapping)
    ELSE IF s[i] = ")"
    THEN IF start = -1
         THEN TermFail(mapping, "unmatched parentheses")
         ELSE OutputTerm_parse_loop(s, i + 1, indices,
                                    Append(fusing, <<start, Len(indices)>>),
                                    found_ellipsis, -1, mapping)
    ELSE LET m2 == setdefault(mapping, s[i])
         IN  OutputTerm_parse_loop(s, i + 1, Append(indices, lookup(m2, s[i])),
                                   fusing, found_ellipsis, start, m2)

OutputTerm_parse(s, mapping) ==
    OutputTerm_parse_loop(s, 1, <<>>, <<>>, FALSE, -1, mapping)

(* ------------------------------------------------------ Expression.parse *)
\* An Expression: inputs is a sequence of index sequences (InputTerm.indices),
\* outputs a sequence of [indices, fusing] records (OutputTerm).
ExprFail(why) == [ok |-> FALSE, inputs |-> <<>>, outputs |-> <<>>, err |-> why]

Expression(inputs, outputs) ==
    [ok |-> TRUE, inputs |-> inputs, outputs |-> outputs, err |-> ""]

OutputTerm(indices, fusing) == [indices |-> indices, fusing |-> fusing]

\* one element of the list comprehensions of parse
parse_term(s, isInput, mapping) ==
    IF isInput THEN InputTerm_parse(s, mapping) ELSE OutputTerm_parse(s, mapping)

\* the list comprehensions of parse: the terms are parsed left to right, the
\* mapping threaded through them; the first failing term raises.  t is the
\* parsed term Head(subs).
RECURSIVE parse_terms(_, _, _, _)
RECURSIVE parse_terms_from(_, _, _, _, _)
parse_terms_from(t, subs, isInput, mapping, acc) ==
    IF ~t.ok
    THEN [ok |-> FALSE, terms |-> <<>>, mapping |-> mapping, err |-> t.err]
    ELSE parse_terms(Tail(subs), isInput, t.mapping,
                     Append(acc, IF isInput THEN t.indices
                                 ELSE OutputTerm(t.indices, t.fusing)))

parse_terms(subs, isInput, mapping, acc) ==
    IF subs = <<>>
    THEN [ok |-> TRUE, terms |-> acc, mapping |-> mapping, err |-> ""]
    ELSE parse_terms_from(parse_term(Head(subs), isInput, mapping),
                          subs, isInput, mapping, acc)

\* the end of parse, ins and outs the two parsed sides
parse_result(ins, outs) ==
    IF ~outs.ok THEN ExprFail(outs.err)
    ELSE IF Len(outs.mapping) > NChars
    THEN ExprFail("too many indices")
    ELSE Expression(ins.terms, outs.terms)

\* parse from outputs = [...] on, ins the parsed input side
parse_outputs(ins, output_subscripts) ==
    IF ~ins.ok THEN ExprFail(ins.err)
    ELSE parse_result(ins, parse_terms(output_subscripts, FALSE, ins.mapping, <<>>))

\* parse from the check of the separator on
parse_sides(inputs_outputs) ==
    IF Len(inputs_outputs) # 2 THEN ExprFail("invalid subscripts")
    ELSE parse_outputs(parse_terms(split(inputs_outputs[1], <<",">>), TRUE, <<>>, <<>>),
                       split(inputs_outputs[2], <<",">>))

Expression_parse(subscripts) ==
    parse_sides(split(strip_space(subscripts), <<"-", ">">>))

parse(subscripts) == Expression_parse(subscripts)

(* ------------------------------------------------- Expression properties *)
\* set(itertools.chain.from_iterable(self.inputs))
input_indices(e) == Range(Flatten(e.inputs))

\* set(itertools.chain.from_iterable(self.outputs))
output_indices(e) == Range(Flatten([k \in 1..Len(e.outputs) |-> e.outputs[k].indices]))

\* the indices nindices takes the max of
named_indices(e) == (input_indices(e) \cup output_indices(e)) \ {Ellipsis}

\* Expression.nindices; max() of an empty sequence raises ValueError, for which
\* has_nindices is FALSE
has_nindices(e) == named_indices(e) # {}

nindices(e) == SetMax(named_indices(e)) + 1

(* ------------------------------------------------------- InputTerm.match *)
\* the loop of InputTerm.match: j the 1-based position in indices, i the axes
\* consumed, next the id the closure fresh() returns next
RECURSIVE InputTerm_match_loop(_, _, _, _, _, _)
InputTerm_match_loop(indices, ndim, j, i, newindices, next) ==
    IF j > Len(indices)
    THEN IF i # ndim
         THEN [ok |-> FALSE, indices |-> <<>>, next |-> next,
               err |-> "indices do not match ndim"]
         ELSE [ok |-> TRUE, indices |-> newindices, next |-> next, err |-> ""]
    ELSE IF indices[j] = Ellipsis
    THEN LET count == (ndim - i) - (Len(indices) - (j - 1) - 1)
         IN  IF count < 0
             THEN [ok |-> FALSE, indices |-> <<>>, next |-> next,
                   err |-> "indices do not match ndim"]
             ELSE InputTerm_match_loop(indices, ndim, j + 1, i + count,
                      newindices \o [k \in 1..count |-> next + k - 1], next + count)
    ELSE InputTerm_match_loop(indices, ndim, j + 1, i + 1,
                              Append(newindices, indices[j]), next)

InputTerm_match(indices, ndim, next) ==
    InputTerm_match_loop(indices, ndim, 1, 0, <<>>, next)

(* ----------------------------------------------------- OutputTerm.expand *)
\* ellipsis_position after the loop of expand, as a 0-based position; -1 when
\* the term holds no Ellipsis
ellipsis_position(indices) ==
    LET at == {k \in 1..Len(indices) : indices[k] = Ellipsis}
    IN  IF at = {} THEN -1 ELSE SetMax(at) - 1

\* newindices of expand
expand_indices(indices, ellipsis) ==
    Flatten([k \in 1..Len(indices) |->
                IF indices[k] = Ellipsis THEN ellipsis ELSE <<indices[k]>>])

\* pad that shifts by the whole run, the ellipsis itself not counted off
pad_whole_run(j, pos, ellipsis) == IF j > pos THEN j + Len(ellipsis) ELSE j

\* pad that shifts every boundary, those before the ellipsis too
pad_every_boundary(j, pos, ellipsis) == j + Len(ellipsis) - 1

\* the lambda pad of expand
pad(j, pos, ellipsis) == IF j > pos THEN j + Len(ellipsis) - 1 ELSE j

\* newfusing of expand
expand_fusing(t, ellipsis) ==
    LET pos == ellipsis_position(t.indices)
    IN  IF pos < 0 THEN t.fusing
        ELSE [g \in 1..Len(t.fusing) |->
                 <<pad(t.fusing[g][1], pos, ellipsis), pad(t.fusing[g][2], pos, ellipsis)>>]

\* expand that never raises
expand_never_raises(t, ellipsis) == FALSE

\* whether expand raises 'expect ellipsis in output subscripts'
expand_raises(t, ellipsis) ==
    ellipsis # <<>> /\ ellipsis_position(t.indices) < 0

OutputTerm_expand(t, ellipsis) ==
    OutputTerm(expand_indices(t.indices, ellipsis), expand_fusing(t, ellipsis))

(* ------------------------------------------------------ Expression.match *)
\* newinputs of match: the input terms matched left to right, all drawing their
\* fresh ids from the one counter.  t is the matched term Head(terms).
RECURSIVE match_inputs(_, _, _, _)
RECURSIVE match_inputs_from(_, _, _, _, _)
match_inputs_from(t, terms, ndims, next, acc) ==
    IF ~t.ok
    THEN [ok |-> FALSE, terms |-> <<>>, next |-> next, err |-> t.err]
    ELSE match_inputs(Tail(terms), Tail(ndims), t.next, Append(acc, t.indices))

match_inputs(terms, ndims, next, acc) ==
    IF terms = <<>>
    THEN [ok |-> TRUE, terms |-> acc, next |-> next, err |-> ""]
    ELSE match_inputs_from(InputTerm_match(Head(terms), Head(ndims), next),
                           terms, ndims, next, acc)

\* the first half of match: the operand count check, nindices and newinputs
match_newinputs(e, ndims) ==
    IF Len(ndims) # Len(e.inputs)
    THEN [ok |-> FALSE, terms |-> <<>>, next |-> 0,
          err |-> "number of operands does not match subscripts"]
    ELSE IF ~has_nindices(e)
    THEN [ok |-> FALSE, terms |-> <<>>, next |-> 0,
          err |-> "max() arg is an empty sequence"]
    ELSE match_inputs(e.inputs, ndims, nindices(e), <<>>)

\* range(first, next) as a list
range(first, next) == [k \in 1..(next - first) |-> first + k - 1]

\* ellipsis of match: list(range(self.nindices, nindices))
match_ellipsis(e, next) == range(nindices(e), next)

\* newoutputs of match and the Expression returned, newinputs the matched
\* input terms
match_outputs(e, newinputs, ellipsis) ==
    IF \E k \in 1..Len(e.outputs) : expand_raises(e.outputs[k], ellipsis)
    THEN ExprFail("expect ellipsis in output subscripts")
    ELSE Expression(newinputs,
             [k \in 1..Len(e.outputs) |-> OutputTerm_expand(e.outputs[k], ellipsis)])

\* match from ellipsis = ... on, ins the outcome of the first half
match_expand(e, ins) ==
    IF ~ins.ok THEN ExprFail(ins.err)
    ELSE match_outputs(e, ins.terms, match_ellipsis(e, ins.next))

Expression_match(e, ndims) == match_expand(e, match_newinputs(e, ndims))

\* e.match(ndims) of a parse that may have raised
match_parsed(e, ndims) == IF ~e.ok THEN e ELSE Expression_match(e, ndims)

\* parse(subscripts).match(ndims)
parse_match(subscripts, ndims) == match_parsed(parse(subscripts), ndims)

(* ------------------------------------------------------------ validators *)
\* newindices.pop() of a one-element set
the_index(S) == CHOOSE x \in S : TRUE

\* the checks of parse_einsum without the check of the output indices
einsum_unchecked(expr) ==
    IF ~expr.ok THEN expr
    ELSE IF Len(expr.outputs) # 1
    THEN ExprFail("too many outputs for einsum")
    ELSE expr

\* the checks of parse_einsum on the matched expression
einsum_checks(expr) ==
    IF ~expr.ok THEN expr
    ELSE IF Len(expr.outputs) # 1
    THEN ExprFail("too many outputs for einsum")
    ELSE IF ~(output_indices(expr) \subseteq input_indices(expr))
    THEN ExprFail("output indices should be a subset of input indices for einsum")
    ELSE expr

parse_einsum(subscripts, ndims) == einsum_checks(parse_match(subscripts, ndims))

\* the checks of the new index that parse_einsvd and parse_einsumsvd share
newindex_checks(expr, newindices, family) ==
    IF Cardinality(newindices) # 1
    THEN ExprFail(IF family = "einsvd" THEN "expect one new index in outputs for einsvd"
                  ELSE "expect one new index in outputs for einsumsvd")
    ELSE IF \/ the_index(newindices) \notin Range(expr.outputs[1].indices)
            \/ the_index(newindices) \notin Range(expr.outputs[2].indices)
    THEN ExprFail(IF family = "einsvd" THEN "expect new index in both outputs for einsvd"
                  ELSE "expect new index in both outputs for einsumsvd")
    ELSE IF \/ Len(expr.outputs[1].indices) = 1
            \/ Len(expr.outputs[2].indices) = 1
    THEN ExprFail(IF family = "einsvd" THEN "expect outputs to be at least two dimensional for einsvd"
                  ELSE "expect outputs to be at least two dimensional for einsumsvd")
    ELSE expr

\* the last check of parse_einsvd left out
einsvd_norepeat(expr) == expr

\* the last check of parse_einsvd
einsvd_repeat_check(expr) ==
    IF ~expr.ok THEN expr
    ELSE IF Cardinality(output_indices(expr)) #
               Len(expr.outputs[1].indices) + Len(expr.outputs[2].indices) - 1
    THEN ExprFail("only the new index can repeat in the output for einsvd")
    ELSE expr

\* the checks of parse_einsvd on the matched expression
einsvd_checks(expr) ==
    IF ~expr.ok THEN expr
    ELSE IF Len(expr.inputs) # 1
    THEN ExprFail("expect one input for einsvd")
    ELSE IF Len(expr.outputs) # 2
    THEN ExprFail("expect two outputs for einsvd")
    ELSE IF Cardinality(Range(expr.inputs[1])) # Len(expr.inputs[1])
    THEN ExprFail("input indices should not repeat for einsvd")
    ELSE IF ~(input_indices(expr) \subseteq output_indices(expr))
    THEN ExprFail("expect input indices subset of output indices for einsvd")
    ELSE einsvd_repeat_check(
             newindex_checks(expr, output_indices(expr) \ input_indices(expr), "einsvd"))

parse_einsvd(subscripts, ndim) == einsvd_checks(parse_match(subscripts, <<ndim>>))

\* the checks of parse_einsumsvd with the rule of parse_einsvd that every input
\* index is kept
einsumsvd_preserving(expr) ==
    IF ~expr.ok THEN expr
    ELSE IF Len(expr.inputs) < 1
    THEN ExprFail("expect at least one input for einsumsvd")
    ELSE IF Len(expr.outputs) # 2
    THEN ExprFail("expect two outputs for einsumsvd")
    ELSE IF ~(input_indices(expr) \subseteq output_indices(expr))
    THEN ExprFail("expect input indices subset of output indices for einsvd")
    ELSE newindex_checks(expr, output_indices(expr) \ input_indices(expr), "einsumsvd")

\* the checks of parse_einsumsvd on the matched expression
einsumsvd_checks(expr) ==
    IF ~expr.ok THEN expr
    ELSE IF Len(expr.inputs) < 1
    THEN ExprFail("expect at least one input for einsumsvd")
    ELSE IF Len(expr.outputs) # 2
    THEN ExprFail("expect two outputs for einsumsvd")
    ELSE newindex_checks(expr, output_indices(expr) \ input_indices(expr), "einsumsvd")

parse_einsumsvd(subscripts, ndims) == einsumsvd_checks(parse_match(subscripts, ndims))

(* ------------------------------------------------------- split_einsumsvd *)
\* intermediate_indices of split_einsumsvd
intermediate_indices(expr) ==
    LET newindex == the_index(output_indices(expr) \ input_indices(expr))
    IN  SelectSeq(Flatten([k \in 1..Len(expr.outputs) |-> expr.outputs[k].indices]),
                  LAMBDA idx : idx # newindex)

\* the pair (einsum_expr, einsvd_expr)
split_einsumsvd(expr) ==
    LET mid == intermediate_indices(expr)
    IN  [einsum_expr |-> Expression(expr.inputs, <<OutputTerm(mid, <<>>)>>),
         einsvd_expr |-> Expression(<<mid>>, expr.outputs)]

(* --------------------------------------------------- OutputTerm.newshape *)
RECURSIVE newshape_loop_stale(_, _, _, _, _)
\* the loop of newshape without i = end: the axes of a group pass through
\* again after it
newshape_loop_stale(fusing, shape, g, i, acc) ==
    IF g > Len(fusing)
    THEN acc \o SubSeq(shape, i + 1, Len(shape))
    ELSE newshape_loop_stale(fusing, shape, g + 1, fusing[g][1],
             (acc \o SubSeq(shape, i + 1, fusing[g][1]))
                 \o <<Product(SubSeq(shape, fusing[g][1] + 1, fusing[g][2]))>>)

\* the loop of newshape over self.fusing[g..], i the 0-based axis reached;
\* shape[a:b] is SubSeq(shape, a + 1, b)
RECURSIVE newshape_loop(_, _, _, _, _)
newshape_loop(fusing, shape, g, i, acc) ==
    IF g > Len(fusing)
    THEN acc \o SubSeq(shape, i + 1, Len(shape))
    ELSE newshape_loop(fusing, shape, g + 1, fusing[g][2],
             (acc \o SubSeq(shape, i + 1, fusing[g][1]))
                 \o <<Product(SubSeq(shape, fusing[g][1] + 1, fusing[g][2]))>>)

OutputTerm_newshape(t, shape) ==
    IF Ellipsis \in Range(t.indices)
    THEN [ok |-> FALSE, shape |-> <<>>, err |-> "ellipsis not expanded"]
    ELSE IF Len(shape) # Len(t.indices)
    THEN [ok |-> FALSE, shape |-> <<>>, err |-> "indices do not match shape"]
    ELSE [ok |-> TRUE, shape |-> newshape_loop(t.fusing, shape, 1, 0, <<>>), err |-> ""]

(* ------------------------------------------------------- generated inputs *)
\* the characters of a token: a letter, or the three dots of an ellipsis
token_chars(tok) == IF tok = "..." THEN <<".", ".", ".">> ELSE <<tok>>

\* all terms of at most n tokens of T, as character sequences
Terms(T, n) ==
    UNION {{Flatten([k \in 1..m |-> token_chars(toks[k])]) : toks \in [1..m -> T]}
              : m \in 0..n}

\* the lists of one term, and of one or two terms, of TS
OneTerm(TS) == [1..1 -> TS]
TermLists(TS) == [1..1 -> TS] \cup [1..2 -> TS]

RECURSIVE join(_)
\* ','.join(ts)
join(ts) == IF Len(ts) = 1 THEN ts[1] ELSE (ts[1] \o <<",">>) \o join(Tail(ts))

\* the subscript string 'inputs->outputs' of two term lists
Subscript(ins, outs) == (join(ins) \o <<"-", ">">>) \o join(outs)

\* the letters of a term's text
literals(term) == Len(SelectSeq(term, LAMBDA c : c \notin {".", "(", ")"}))

\* every rank list of one or two ranks of 0..MaxRank
RankLists == [1..1 -> 0..MaxRank] \cup [1..2 -> 0..MaxRank]

\* the rank lists near the ranks the input terms ask for: every term's letter
\* count plus one offset d (d = 0: the ranks of terms without ellipsis; d > 0:
\* a broadcast run of d axes; d = -1: an operand too small), and one list
\* with an operand too many
NearRanks(ins) ==
    {[k \in 1..Len(ins) |-> IF literals(ins[k]) + d < 0 THEN 0 ELSE literals(ins[k]) + d]
        : d \in -1..MaxRun}
    \cup {Append([k \in 1..Len(ins) |-> literals(ins[k])], 0)}

\* the calls of the scenarios of the documentation
Scenarios ==
    { [s |-> <<"i","j",",","j","k","-",">","i","k">>, n |-> <<2, 2>>],
      [s |-> <<"i","j","-",">","i","a",",","j","a">>, n |-> <<2>>],
      [s |-> <<"i","j",",","j","k","-",">","i","a",",","k","a">>, n |-> <<2, 2>>],
      [s |-> <<"i",".",".",".",",","j",".",".",".","-",">",
               "i",".",".",".",",","j",".",".",".">>, n |-> <<3, 2>>],
      [s |-> <<"i","i","-",">","i">>, n |-> <<2>>],
      [s |-> <<"(","i","j",")","-",">","i","j">>, n |-> <<2>>],
      [s |-> <<"i",".",".",".","-",">","i","a",",","a",".",".",".">>, n |-> <<2>>],
      [s |-> <<"i",".",".",".",",","i","-",">","(","i","a",")",",","a",".",".",".">>,
       n |-> <<3, 1>>] }

(* ------------------------------------------------------------------ state *)
VARIABLES
    subscripts,    \* the subscript string of the call
    ndims,         \* the operand ranks of the call
    op,            \* the function called last, "none" before the first call
    parsed,        \* the Expression parse(subscripts) returned to the call
    expr,          \* the Expression a call returned (ok = FALSE: it raised)
    newinputs,     \* match: its local newinputs (ok = FALSE: not reached)
    einsum_expr,   \* split_einsumsvd: the first Expression returned
    einsvd_expr,   \* split_einsumsvd: the second Expression returned
    which,         \* newshape: the output term it was called on
    shape,         \* newshape: its argument
    newshape,      \* newshape: what it returned (ok = FALSE: it raised)
    rendered,      \* str(expr): the string returned (ok = FALSE: it raised)
    again          \* the Expression parse(str(expr)).match(ndims) returned

vars == <<subscripts, ndims, op, parsed, expr, newinputs, einsum_expr, einsvd_expr,
          which, shape, newshape, rendered, again>>

NoExpr == ExprFail("not called")
NoInputs == [ok |-> FALSE, terms |-> <<>>, next |-> 0, err |-> "not called"]
NoShape == [ok |-> FALSE, shape |-> <<>>, err |-> "not called"]
NoText == [ok |-> FALSE, s |-> <<>>, err |-> "not called"]

\* the state before any call on subscripts s and ranks n
Start(s, n) ==
    /\ subscripts = s
    /\ ndims = n
    /\ op = "none"
    /\ parsed = NoExpr
    /\ expr = NoExpr
    /\ newinputs = NoInputs
    /\ einsum_expr = NoExpr
    /\ einsvd_expr = NoExpr
    /\ which = 0
    /\ shape = <<>>
    /\ newshape = NoShape
    /\ rendered = NoText
    /\ again = NoExpr

InitScenario == \E c \in Scenarios : Start(c.s, c.n)

(* ---------------------------------------------------------------- actions *)
\* parse(subscripts).match(ndims)
CallMatch ==
    /\ op = "none"
    /\ op' = "match"
    /\ parsed' = parse(subscripts)
    /\ expr' = parse_match(subscripts, ndims)
    /\ newinputs' = IF parsed'.ok THEN match_newinputs(parsed', ndims) ELSE NoInputs
    /\ UNCHANGED <<rendered, again, subscripts, ndims, einsum_expr, einsvd_expr, which, shape, newshape>>

\* parse_einsum(subscripts, ndims)
CallParseEinsum ==
    /\ op = "none"
    /\ op' = "parse_einsum"
    /\ parsed' = parse(subscripts)
    /\ expr' = parse_einsum(subscripts, ndims)
    /\ UNCHANGED <<rendered, again, subscripts, ndims, newinputs, einsum_expr, einsvd_expr,
                   which, shape, newshape>>

\* parse_einsvd(subscripts, ndim): the operand rank is ndims[1]
CallParseEinsvd ==
    /\ op = "none"
    /\ Len(ndims) = 1
    /\ op' = "parse_einsvd"
    /\ parsed' = parse(subscripts)
    /\ expr' = parse_einsvd(subscripts, ndims[1])
    /\ UNCHANGED <<rendered, again, subscripts, ndims, newinputs, einsum_expr, einsvd_expr,
                   which, shape, newshape>>

\* parse_einsumsvd(subscripts, ndims)
CallParseEinsumsvd ==
    /\ op = "none"
    /\ op' = "parse_einsumsvd"
    /\ parsed' = parse(subscripts)
    /\ expr' = parse_einsumsvd(subscripts, ndims)
    /\ UNCHANGED <<rendered, again, subscripts, ndims, newinputs, einsum_expr, einsvd_expr,
                   which, shape, newshape>>

\* split_einsumsvd(expr) on the expression parse_einsumsvd returned, as the
\* backends call it
CallSplitEinsumsvd ==
    /\ op = "parse_einsumsvd"
    /\ expr.ok
    /\ op' = "split_einsumsvd"
    /\ einsum_expr' = split_einsumsvd(expr).einsum_expr
    /\ einsvd_expr' = split_einsumsvd(expr).einsvd_expr
    /\ UNCHANGED <<rendered, again, subscripts, ndims, parsed, expr, newinputs, which, shape, newshape>>

\* the extents of an axis that are tried
Dims == {2, 3}

\* expr.outputs[k].newshape(sh) on a matched expression, for a shape of up to
\* one axis more than the term has
CallNewshape ==
    /\ op = "match"
    /\ expr.ok
    /\ \E k \in 1..Len(expr.outputs) :
       \E n \in 0..(Len(expr.outputs[k].indices) + 1) :
       \E sh \in [1..n -> Dims] :
          /\ which' = k
          /\ shape' = sh
          /\ newshape' = OutputTerm_newshape(expr.outputs[k], sh)
    /\ op' = "newshape"
    /\ UNCHANGED <<rendered, again, subscripts, ndims, parsed, expr, newinputs, einsum_expr, einsvd_expr>>

(* --------------------------------------------------- contraction family *)
\* the calls of parse_einsum: one or two input terms of i and the ellipsis;
\* one output term of i, a and the ellipsis, or two shorter ones
InitEinsum ==
    \/ InitScenario
    \/ \E ins \in TermLists(Terms({"i", "..."}, MaxLen)) :
       \E outs \in OneTerm(Terms({"i", "a", "..."}, MaxLen))
                      \cup [1..2 -> Terms({"i", "..."}, MaxLen - 1)] :
       \E n \in NearRanks(ins) : Start(Subscript(ins, outs), n)

NextEinsum == CallParseEinsum

SpecEinsum == InitEinsum /\ [][NextEinsum]_vars

\* the parsed expression of the call, and what match makes of it
Parsed == parsed
Matched == Expression_match(parsed, ndims)

\* every index of output term k of e occurs at some position of an input term
OutputBound(e, k) ==
    \A p \in 1..Len(e.outputs[k].indices) :
       \E t \in 1..Len(e.inputs) : \E q \in 1..Len(e.inputs[t]) :
          e.inputs[t][q] = e.outputs[k].indices[p]

\* C1: parse_einsum returns the matched expression exactly when parsing and
\* matching succeed, there is one output term and each of its indices occurs
\* in an input term; in every other case it raises.
C1_EinsumAcceptsIff ==
    op = "parse_einsum" =>
       LET good == /\ Parsed.ok
                   /\ Matched.ok
                   /\ Len(Matched.outputs) = 1
                   /\ OutputBound(Matched, 1)
       IN  /\ expr.ok <=> good
           /\ good => expr = Matched

\* a contraction of two operands is accepted
C1_Witness ==
    /\ op = "parse_einsum"
    /\ expr.ok
    /\ Len(expr.inputs) = 2
    /\ Len(expr.outputs[1].indices) >= 1

(* ------------------------------------------------- decomposition family *)
\* letters are interchangeable: a term in which i is the first letter stands
\* for the terms that rename its letters
FirstSeen(term) ==
    \/ "j" \notin Range(term)
    \/ /\ "i" \in Range(term)
       /\ find(term, <<"i">>, 1) < find(term, <<"j">>, 1)

\* the calls of parse_einsvd: one input term of i, j and the ellipsis, one or
\* two output terms of i, j and a
InitEinsvd ==
    \/ \E c \in Scenarios : Len(c.n) = 1 /\ Start(c.s, c.n)
    \/ \E ins \in OneTerm({t \in Terms({"i", "j", "..."}, MaxLen) : FirstSeen(t)}) :
       \E outs \in TermLists(Terms({"i", "j", "a"}, MaxLen)) :
       \E r \in 0..MaxRank : Start(Subscript(ins, outs), <<r>>)

NextEinsvd == CallParseEinsvd

SpecEinsvd == InitEinsvd /\ [][NextEinsvd]_vars

\* the number of positions of seq that hold x
Count(seq, x) == Cardinality({p \in 1..Len(seq) : seq[p] = x})

\* the indices of the output terms of e, in order
OutputPositions(e) == Flatten([k \in 1..Len(e.outputs) |-> e.outputs[k].indices])

\* the indices that occur in an output term of e and in no input term
NewIndices(e) == {x \in Range(OutputPositions(e)) : \A t \in 1..Len(e.inputs) : x \notin Range(e.inputs[t])}

\* the rules of the decomposition family as the documentation lists them
EinsvdRules(e) ==
    /\ Len(e.inputs) = 1 /\ Len(e.outputs) = 2
    /\ \A p, q \in 1..Len(e.inputs[1]) : p # q => e.inputs[1][p] # e.inputs[1][q]
    /\ \A p \in 1..Len(e.inputs[1]) : e.inputs[1][p] \in Range(OutputPositions(e))
    /\ Cardinality(NewIndices(e)) = 1
    /\ \A x \in NewIndices(e) : \A k \in 1..2 : x \in Range(e.outputs[k].indices)
    /\ \A k \in 1..2 : Len(e.outputs[k].indices) >= 2
    /\ \A x \in Range(OutputPositions(e)) \ NewIndices(e) : Count(OutputPositions(e), x) <= 1

\* the new index occurs once in each output term
NewIndexOnce(e) ==
    \A x \in NewIndices(e) : \A k \in 1..Len(e.outputs) : Count(e.outputs[k].indices, x) = 1

\* C2 as stated: parse_einsvd accepts exactly the matched expressions that
\* satisfy the listed rules, the new index being the only index that may be
\* repeated in the output terms.
C2_EinsvdAcceptsIffRules ==
    op = "parse_einsvd" =>
       (expr.ok <=> (Parsed.ok /\ Matched.ok /\ EinsvdRules(Matched)))

\* C2 amended: parse_einsvd accepts exactly the matched expressions that
\* satisfy the listed rules and in which the new index occurs exactly once in
\* each output term; it then returns the matched expression.
C2_EinsvdAcceptsIff ==
    op = "parse_einsvd" =>
       LET good == /\ Parsed.ok
                   /\ Matched.ok
                   /\ EinsvdRules(Matched)
                   /\ NewIndexOnce(Matched)
       IN  /\ expr.ok <=> good
           /\ good => expr = Matched

\* a decomposition of a matrix is accepted
C2_Witness ==
    /\ op = "parse_einsvd"
    /\ expr.ok
    /\ Len(expr.inputs[1]) = 2
    /\ Cardinality(NewIndices(expr)) = 1

(* ------------------------------------------------------------ fused family *)
\* the rank lists for input terms without ellipsis: the letter counts, the
\* letter counts plus one, and one list with an operand too many
ExactRanks(ins) ==
    { [k \in 1..Len(ins) |-> literals(ins[k])],
      [k \in 1..Len(ins) |-> literals(ins[k]) + 1],
      Append([k \in 1..Len(ins) |-> literals(ins[k])], 0) }

\* the calls of parse_einsumsvd: one or two input terms of i and j, one or two
\* output terms of i and a
InitEinsumsvd ==
    \/ InitScenario
    \/ \E ins \in {l \in TermLists(Terms({"i", "j"}, MaxLen)) : FirstSeen(join(l))} :
       \E outs \in TermLists(Terms({"i", "a"}, MaxLen)) :
       \E n \in ExactRanks(ins) : Start(Subscript(ins, outs), n)

NextEinsumsvd == CallParseEinsumsvd \/ CallSplitEinsumsvd

SpecEinsumsvd == InitEinsumsvd /\ [][NextEinsumsvd]_vars

\* the rules of the fused family
EinsumsvdRules(e) ==
    /\ Len(e.outputs) = 2
    /\ Cardinality(NewIndices(e)) = 1
    /\ \A x \in NewIndices(e) : \A k \in 1..2 : x \in Range(e.outputs[k].indices)
    /\ \A k \in 1..2 : Len(e.outputs[k].indices) >= 2

\* C3: parse_einsumsvd returns the matched expression exactly when parsing and
\* matching succeed, there are two output terms, exactly one index of the
\* outputs is in no input term, that index is in both output terms and each
\* output term has at least two positions; an index shared by input terms is
\* no reason to reject.
C3_EinsumsvdAcceptsIff ==
    op = "parse_einsumsvd" =>
       LET good == Parsed.ok /\ Matched.ok /\ EinsumsvdRules(Matched)
       IN  /\ expr.ok <=> good
           /\ good => expr = Matched

\* an expression whose two input terms share an index is accepted
C3_Witness ==
    /\ op = "parse_einsumsvd"
    /\ expr.ok
    /\ Len(expr.inputs) = 2
    /\ Range(expr.inputs[1]) \cap Range(expr.inputs[2]) # {}

RECURSIVE FirstOccurrences(_)
\* seq with every index kept at its first position only
FirstOccurrences(seq) ==
    IF seq = <<>> THEN <<>>
    ELSE LET front == FirstOccurrences(SubSeq(seq, 1, Len(seq) - 1))
         IN  IF seq[Len(seq)] \in Range(front) THEN front
             ELSE Append(front, seq[Len(seq)])

\* the intermediate term split_einsumsvd built
Intermediate == einsum_expr.outputs[1].indices

\* C7: the intermediate term of split_einsumsvd is the scan of output term 1
\* then output term 2 without the new index, every index kept at its first
\* occurrence only: no index twice, never the new index, and as a set the
\* output indices less the new index.
C7_IntermediateFirstOccurrences ==
    op = "split_einsumsvd" =>
       /\ Intermediate =
             FirstOccurrences(SelectSeq(OutputPositions(expr),
                                        LAMBDA x : x \notin NewIndices(expr)))
       /\ \A p, q \in 1..Len(Intermediate) : p # q => Intermediate[p] # Intermediate[q]
       /\ Range(Intermediate) \cap NewIndices(expr) = {}
       /\ Range(Intermediate) = Range(OutputPositions(expr)) \ NewIndices(expr)

\* C8: split_einsumsvd returns a contraction half (the original inputs, one
\* output term, the intermediate term without fusing groups, bound by the
\* inputs) and a decomposition half (one input term, the intermediate term,
\* the original output terms with their fusing groups) that satisfies the
\* rules of the decomposition family.
C8_SplitHalvesValid ==
    op = "split_einsumsvd" =>
       /\ einsum_expr.ok /\ einsvd_expr.ok
       /\ einsum_expr.inputs = expr.inputs
       /\ Len(einsum_expr.outputs) = 1
       /\ einsum_expr.outputs[1].fusing = <<>>
       /\ OutputBound(einsum_expr, 1)
       /\ einsvd_expr.inputs = <<Intermediate>>
       /\ einsvd_expr.outputs = expr.outputs
       /\ EinsvdRules(einsvd_expr)

(* ------------------------------------------------------------------ match *)
\* the calls of match: one or two input terms and one or two output terms of
\* i and the ellipsis, every list of one or two ranks
InitMatch ==
    \/ InitScenario
    \/ \E ins \in TermLists(Terms({"i", "..."}, MaxLen)) :
       \E outs \in TermLists(Terms({"i", "..."}, MaxLen)) :
       \E n \in RankLists : Start(Subscript(ins, outs), n)

NextMatch == CallMatch

SpecMatch == InitMatch /\ [][NextMatch]_vars

HasEllipsis(indices) == Ellipsis \in Range(indices)

\* the literal indices of an unmatched term
Literals(indices) == Len(SelectSeq(indices, LAMBDA x : x # Ellipsis))

\* 1-based position of the ellipsis of a term that has one
EllipsisAt(indices) == CHOOSE p \in 1..Len(indices) : indices[p] = Ellipsis

\* the n positions of new that stand in the place of the ellipsis of old
RunOf(new, old, n) == SubSeq(new, EllipsisAt(old), EllipsisAt(old) + n - 1)

\* new is old with its ellipsis replaced in place by n ids (old itself when
\* old holds no ellipsis)
IsSplice(new, old, n) ==
    IF HasEllipsis(old)
    THEN /\ Len(new) = Len(old) - 1 + n
         /\ SubSeq(new, 1, EllipsisAt(old) - 1) = SubSeq(old, 1, EllipsisAt(old) - 1)
         /\ SubSeq(new, EllipsisAt(old) + n, Len(new))
               = SubSeq(old, EllipsisAt(old) + 1, Len(old))
         /\ \A x \in Range(RunOf(new, old, n)) : x \in Nat
    ELSE new = old

\* rank r fits an unmatched input term
Fits(indices, r) ==
    IF HasEllipsis(indices) THEN r >= Literals(indices) ELSE r = Literals(indices)

\* C4: match is rank-exact on the input terms.  With one rank per input term,
\* the input terms are matched only when every rank fits its term (at least
\* the literal count with an ellipsis, equal to it without); the input terms
\* of an expression with an ellipsis are matched whenever every rank fits; and
\* a matched term has as many indices as its rank: the literal indices in
\* order, the ellipsis replaced in place by rank - literals ids.  With another
\* number of ranks match fails.
C4_MatchRankExact ==
    (op = "match" /\ Parsed.ok) =>
       IF Len(ndims) # Len(Parsed.inputs)
       THEN ~newinputs.ok /\ ~expr.ok
       ELSE /\ newinputs.ok =>
                  \A k \in 1..Len(ndims) : Fits(Parsed.inputs[k], ndims[k])
            /\ ( /\ \E k \in 1..Len(ndims) : HasEllipsis(Parsed.inputs[k])
                 /\ \A k \in 1..Len(ndims) : Fits(Parsed.inputs[k], ndims[k]) )
               => newinputs.ok
            /\ newinputs.ok =>
                  \A k \in 1..Len(ndims) :
                     /\ Len(newinputs.terms[k]) = ndims[k]
                     /\ IsSplice(newinputs.terms[k], Parsed.inputs[k],
                                 ndims[k] - Literals(Parsed.inputs[k]))

\* the broadcast run lengths of the input terms that hold an ellipsis
RunLengths ==
    {ndims[k] - Literals(Parsed.inputs[k]) :
        k \in {t \in 1..Len(Parsed.inputs) : HasEllipsis(Parsed.inputs[t])}}

\* C5: after match the ellipsis of every output term is replaced by one and
\* the same run of ids, as long as the longest broadcast run of the input
\* terms that hold an ellipsis.
C5_OutputRunIsLongestRun ==
    (op = "match" /\ expr.ok /\ RunLengths # {}) =>
       LET withEllipsis == {k \in 1..Len(expr.outputs) :
                               HasEllipsis(Parsed.outputs[k].indices)}
           run(k) == RunOf(expr.outputs[k].indices, Parsed.outputs[k].indices,
                           SetMax(RunLengths))
       IN  /\ \A k \in withEllipsis :
                 IsSplice(expr.outputs[k].indices, Parsed.outputs[k].indices,
                          SetMax(RunLengths))
           /\ \A k, l \in withEllipsis : run(k) = run(l)

(* ------------------------------------------------ fusing groups and shapes *)
\* the letters of the generated output terms, by position
Letters == <<"i", "j", "k", "l">>

\* the tokens of the term of n letters with the ellipsis after p of them
\* (p = -1: no ellipsis)
Written(n, p) ==
    [k \in 1..(IF p < 0 THEN n ELSE n + 1) |->
        IF p < 0 \/ k <= p THEN Letters[k]
        ELSE IF k = p + 1 THEN "..." ELSE Letters[k - 1]]

\* the groupings of m tokens: at most two ranges (s, e) over the token
\* boundaries 0..m, one wholly before the other
Groupings(m) ==
    LET ranges == {r \in (0..m) \X (0..m) : r[1] <= r[2]}
    IN  {G \in SUBSET ranges :
            /\ Cardinality(G) <= 2
            /\ \A a, b \in G : a # b => (a[2] <= b[1] \/ b[2] <= a[1])}

\* the text of tokens toks with the groups of G in parentheses
Fused(toks, G) ==
    Flatten([b \in 1..(Len(toks) + 1) |->
        (((IF \E r \in G : r[2] = b - 1 /\ r[1] < b - 1 THEN <<")">> ELSE <<>>)
          \o (IF <<b - 1, b - 1>> \in G THEN <<"(", ")">> ELSE <<>>))
          \o (IF \E r \in G : r[1] = b - 1 /\ r[2] > b - 1 THEN <<"(">> ELSE <<>>))
          \o (IF b <= Len(toks) THEN token_chars(toks[b]) ELSE <<>>)])

\* the output terms of at most MaxAxes letters, with or without an ellipsis,
\* under every grouping
FusedTerms ==
    UNION {UNION {{Fused(Written(n, p), G) : G \in Groupings(Len(Written(n, p)))}
                     : p \in -1..n} : n \in 0..MaxAxes}

\* the calls of match followed by newshape: the operand 'i...' of rank 1 + run
\* for every run of 0..MaxRun axes, one output term with fusing groups
InitShape ==
    \/ InitScenario
    \/ \E out \in FusedTerms : \E run \in 0..MaxRun :
          Start(Subscript(<<Flatten(<<token_chars("i"), token_chars("...")>>)>>, <<out>>), <<1 + run>>)

NextShape == CallMatch \/ CallNewshape

SpecShape == InitShape /\ [][NextShape]_vars

\* the ids match put in the place of the ellipses of the input terms
TotalRun ==
    Len(Flatten(newinputs.terms))
       - Len(SelectSeq(Flatten(Parsed.inputs), LAMBDA x : x # Ellipsis))

\* the output terms written without an ellipsis
Bare == {k \in 1..Len(Parsed.outputs) : ~HasEllipsis(Parsed.outputs[k].indices)}

\* C6 as stated: whenever the inputs match their ranks, match succeeds and
\* leaves an output term without ellipsis unchanged, indices and fusing groups.
C6_BareOutputNeverFails ==
    (op = "match" /\ newinputs.ok) =>
       /\ expr.ok
       /\ \A k \in Bare : expr.outputs[k] = Parsed.outputs[k]

\* C6 amended: when the inputs match their ranks, match fails, with 'expect
\* ellipsis in output subscripts', exactly when some output term holds no
\* ellipsis although the broadcast run is non-empty; when it succeeds it leaves
\* every output term without ellipsis unchanged, indices and fusing groups.
C6_BareOutputFailsOnRun ==
    (op = "match" /\ newinputs.ok) =>
       /\ ~expr.ok <=> (TotalRun > 0 /\ Bare # {})
       /\ ~expr.ok => expr.err = "expect ellipsis in output subscripts"
       /\ expr.ok => \A k \in Bare : expr.outputs[k] = Parsed.outputs[k]

\* match raised on an output term with a fusing group and no ellipsis
C6_Witness ==
    /\ op = "match"
    /\ newinputs.ok
    /\ ~expr.ok
    /\ \E k \in Bare : Parsed.outputs[k].fusing # <<>>

\* the text of output term k of the subscript string
OutputText(k) == split(split(strip_space(subscripts), <<"-", ">">>)[2], <<",">>)[k]

RECURSIVE WrittenGroups(_, _, _, _, _, _)
\* the groups of a term as written: the ranges of axes between each pair of
\* parentheses of text, a letter standing for one axis and the ellipsis for
\* run axes (c the character reached, axes the axes before it)
WrittenGroups(text, run, c, axes, open, groups) ==
    IF c > Len(text) THEN groups
    ELSE IF text[c] = "."
    THEN WrittenGroups(text, run, c + 3, axes + run, open, groups)
    ELSE IF text[c] = "("
    THEN WrittenGroups(text, run, c + 1, axes, axes, groups)
    ELSE IF text[c] = ")"
    THEN WrittenGroups(text, run, c + 1, axes, open, Append(groups, <<open, axes>>))
    ELSE WrittenGroups(text, run, c + 1, axes + 1, open, groups)

RECURSIVE Shrink(_, _)
\* the axes lost by fusing the groups numbered in H: a group of n axes
\* becomes one axis
Shrink(groups, H) ==
    IF H = {} THEN 0
    ELSE LET h == CHOOSE x \in H : TRUE
         IN  (groups[h][2] - groups[h][1] - 1) + Shrink(groups, H \ {h})

\* R is shape with the axes of each group replaced by one axis, their
\* product, and the other axes passed through in order
IsReshape(R, sh, groups) ==
    LET G == 1..Len(groups)
        inGroup(a) == \E g \in G : groups[g][1] < a /\ a <= groups[g][2]
    IN  /\ Len(R) = Len(sh) - Shrink(groups, G)
        /\ \A g \in G :
              R[groups[g][1] - Shrink(groups, {h \in G : h < g}) + 1]
                 = Product(SubSeq(sh, groups[g][1] + 1, groups[g][2]))
        /\ \A a \in 1..Len(sh) :
              ~inGroup(a) =>
                 R[a - Shrink(groups, {h \in G : groups[h][2] < a})] = sh[a]

\* C9: after match the fusing ranges of an output term written with an
\* ellipsis delimit the symbols written inside each pair of parentheses, the
\* ellipsis standing for its run of ids, whatever the length of the run; and
\* newshape on the term multiplies the extents of exactly those axes.
C9_FusingFollowsExpansion ==
    (op \in {"match", "newshape"} /\ expr.ok) =>
       LET outs == Parsed.outputs
       IN  \A k \in 1..Len(outs) :
              HasEllipsis(outs[k].indices) =>
                 LET run == Len(expr.outputs[k].indices) - Literals(outs[k].indices)
                     written == WrittenGroups(OutputText(k), run, 1, 0, 0, <<>>)
                 IN  /\ expr.outputs[k].fusing = written
                     /\ (op = "newshape" /\ which = k /\ newshape.ok)
                           => IsReshape(newshape.shape, shape, written)

\* newshape fused a group that follows a run of three axes
C9_Witness ==
    /\ op = "newshape"
    /\ newshape.ok
    /\ LET old == Parsed.outputs[which]
       IN  /\ HasEllipsis(old.indices)
           /\ Len(expr.outputs[which].indices) - Literals(old.indices) = 3
           /\ \E g \in 1..Len(old.fusing) :
                 /\ old.fusing[g][1] >= EllipsisAt(old.indices)
                 /\ old.fusing[g][2] > old.fusing[g][1]

\* C10: newshape on an expanded output term raises when the shape has another
\* length than the term; otherwise it returns the shape with the axes of each
\* fusing group replaced by one axis, their product, and the axes outside the
\* groups passed through unchanged and in order; without fusing groups it
\* returns the shape itself.
C10_NewshapeFuses ==
    op = "newshape" =>
       LET t == expr.outputs[which]
       IN  /\ newshape.ok <=> Len(shape) = Len(t.indices)
           /\ newshape.ok => IsReshape(newshape.shape, shape, t.fusing)
           /\ (newshape.ok /\ t.fusing = <<>>) => newshape.shape = shape

\* newshape fused a group of two axes or more and passed another axis through
C10_Witness ==
    /\ op = "newshape"
    /\ newshape.ok
    /\ \E g \in 1..Len(expr.outputs[which].fusing) :
          expr.outputs[which].fusing[g][2] - expr.outputs[which].fusing[g][1] >= 2
    /\ Len(newshape.shape) >= 2

(* ------------------------------------------------------ the grammar *)
\* chars = string.ascii_letters
chars ==
    <<"a", "b", "c", "d", "e", "f", "g", "h", "i", "j", "k", "l", "m",
      "n", "o", "p", "q", "r", "s", "t", "u", "v", "w", "x", "y", "z",
      "A", "B", "C", "D", "E", "F", "G", "H", "I", "J", "K", "L", "M",
      "N", "O", "P", "Q", "R", "S", "T", "U", "V", "W", "X", "Y", "Z">>

\* parse(subscripts) alone
CallParse ==
    /\ op = "none"
    /\ op' = "parse"
    /\ parsed' = parse(subscripts)
    /\ UNCHANGED <<subscripts, ndims, expr, newinputs, einsum_expr, einsvd_expr,
                   which, shape, newshape, rendered, again>>

\* the tokens of the generated strings: a letter, the ellipsis, the
\* parentheses, the two separators and a digit
ParseTokens == {"i", "...", "(", ")", ",", "->", "1"}

token_text(tok) == IF tok = "->" THEN <<"-", ">">> ELSE token_chars(tok)

\* every string of at most n tokens
Strings(n) ==
    UNION {{Flatten([k \in 1..m |-> token_text(toks[k])]) : toks \in [1..m -> ParseTokens]}
              : m \in 0..n}

\* the calls of parse: every string of at most MaxTokens tokens, the whole
\* alphabet as one term, and the alphabet with one symbol more
InitParse ==
    \/ InitScenario
    \/ \E s \in Strings(MaxTokens) : Start(s, <<>>)
    \/ Start(chars \o <<"-", ">">>, <<>>)
    \/ Start((chars \o <<"1">>) \o <<"-", ">">>, <<>>)

NextParse == CallParse

SpecParse == InitParse /\ [][NextParse]_vars

IsLetter(c) == c \in Range(chars)

\* the positions of the '->' separators of a text
Arrows(s) == {k \in 1..(Len(s) - 1) : s[k] = "-" /\ s[k + 1] = ">"}

\* a term of the grammar: letters, at most one '...' token and, in an output
\* term, groups in parentheses that close before another opens
TermInGrammar(t, isInput) ==
    LET dots == {k \in 1..Len(t) : t[k] = "."}
        parens == SelectSeq(t, LAMBDA c : c \in {"(", ")"})
    IN  /\ \A k \in 1..Len(t) : IsLetter(t[k]) \/ t[k] \in {".", "(", ")"}
        /\ dots = {} \/ \E q \in dots : dots = {q, q + 1, q + 2}
        /\ isInput => parens = <<>>
        /\ Len(parens) % 2 = 0
        /\ \A k \in 1..Len(parens) : parens[k] = IF k % 2 = 1 THEN "(" ELSE ")"

\* the terms of one side of the separator
SideTerms(side) ==
    LET commas == {k \in 1..Len(side) : side[k] = ","}
        cuts == {0} \cup commas \cup {Len(side) + 1}
    IN  {SubSeq(side, a + 1, b - 1) :
            <<a, b>> \in {c \in cuts \X cuts :
                             c[1] < c[2] /\ ~\E m \in commas : c[1] < m /\ m < c[2]}}

\* the strings of the subscript grammar
InGrammar(s) ==
    /\ Cardinality(Arrows(s)) = 1
    /\ LET at == CHOOSE k \in Arrows(s) : TRUE
       IN  /\ \A t \in SideTerms(SubSeq(s, 1, at - 1)) : TermInGrammar(t, TRUE)
           /\ \A t \in SideTerms(SubSeq(s, at + 2, Len(s))) : TermInGrammar(t, FALSE)
    /\ Cardinality({c \in Range(s) : IsLetter(c)}) <= NChars

\* C11: parse succeeds exactly on the strings of the subscript grammar (one
\* '->', terms of letters with at most one ellipsis, parentheses only in
\* output terms, closed before another opens, at most NChars symbols) and
\* raises on every other string.
C11_ParseAcceptsGrammar ==
    op = "parse" => (parsed.ok <=> InGrammar(strip_space(subscripts)))

(* ------------------------------------------------------- string forms *)
\* asstr of __str__: '...' for Ellipsis, else chars[idx]
asstr(idx) == IF idx = Ellipsis THEN <<".", ".", ".">> ELSE <<chars[idx + 1]>>

\* chars[idx] raises IndexError: idx is past the end of chars
asstr_raises(idx) == idx # Ellipsis /\ idx >= NChars

\* ''.join(asstr(idx) for idx in indices)
join_asstr(indices) == Flatten([k \in 1..Len(indices) |-> asstr(indices[k])])

\* InputTerm.__str__
InputTerm_str(indices) == join_asstr(indices)

\* the loop of OutputTerm.__str__ over self.fusing[g..], i the 0-based position
\* reached; indices[a:b] is SubSeq(indices, a + 1, b)
RECURSIVE OutputTerm_str_loop(_, _, _, _)
OutputTerm_str_loop(t, g, i, result) ==
    IF g > Len(t.fusing)
    THEN result \o join_asstr(SubSeq(t.indices, i + 1, Len(t.indices)))
    ELSE OutputTerm_str_loop(t, g + 1, t.fusing[g][2],
             ((((result \o join_asstr(SubSeq(t.indices, i + 1, t.fusing[g][1])))
                 \o <<"(">>)
                 \o join_asstr(SubSeq(t.indices, t.fusing[g][1] + 1, t.fusing[g][2])))
                 \o <<")">>))

\* OutputTerm.__str__
OutputTerm_str(t) == OutputTerm_str_loop(t, 1, 0, <<>>)

\* Expression.__str__ raises: some index of some term is past the end of chars
str_raises(e) ==
    \E idx \in input_indices(e) \cup output_indices(e) : asstr_raises(idx)

\* Expression.__str__: the string, or the IndexError of chars[idx]
Expression_str(e) ==
    IF str_raises(e)
    THEN [ok |-> FALSE, s |-> <<>>, err |-> "string index out of range"]
    ELSE [ok |-> TRUE,
          s |-> (join([k \in 1..Len(e.inputs) |-> InputTerm_str(e.inputs[k])])
                    \o <<"-", ">">>)
                    \o join([k \in 1..Len(e.outputs) |-> OutputTerm_str(e.outputs[k])]),
          err |-> ""]

\* str(expr) of a matched expression
CallStr ==
    /\ op = "match"
    /\ expr.ok
    /\ op' = "str"
    /\ rendered' = Expression_str(expr)
    /\ UNCHANGED <<subscripts, ndims, parsed, expr, newinputs, einsum_expr,
                   einsvd_expr, which, shape, newshape, again>>

\* parse(str(expr)).match(ndims), with the ranks of the first match
CallRematch ==
    /\ op = "str"
    /\ rendered.ok
    /\ op' = "rematch"
    /\ again' = parse_match(rendered.s, ndims)
    /\ UNCHANGED <<subscripts, ndims, parsed, expr, newinputs, einsum_expr,
                   einsvd_expr, which, shape, newshape, rendered>>

\* the calls of match whose result is rendered and matched again: one input
\* term of i, j and the ellipsis or two shorter ones, one output term with
\* fusing groups, ranks near the letter counts; and the operand 'i...' of as
\* many axes as chars has letters, and of one axis more
InitRoundTrip ==
    \/ InitScenario
    \/ \E ins \in OneTerm(Terms({"i", "j", "..."}, MaxLen))
                     \cup [1..2 -> Terms({"i", "..."}, MaxLen - 1)] :
       \E out \in FusedTerms :
       \E n \in NearRanks(ins) : Start(Subscript(ins, <<out>>), n)
    \/ \E r \in {NChars, NChars + 1} :
          Start(<<"i", ".", ".", ".", "-", ">", "i", ".", ".", ".">>, <<r>>)

NextRoundTrip == CallMatch \/ CallStr \/ CallRematch

SpecRoundTrip == InitRoundTrip /\ [][NextRoundTrip]_vars

\* every index sequence of an expression, input terms first, as one sequence
AllIndices(e) ==
    Flatten(e.inputs) \o Flatten([k \in 1..Len(e.outputs) |-> e.outputs[k].indices])

\* e and f have the same terms up to one consistent renaming of their ids
SameUpToRenaming(e, f) ==
    /\ Len(e.inputs) = Len(f.inputs)
    /\ Len(e.outputs) = Len(f.outputs)
    /\ \A k \in 1..Len(e.inputs) : Len(e.inputs[k]) = Len(f.inputs[k])
    /\ \A k \in 1..Len(e.outputs) :
          /\ Len(e.outputs[k].indices) = Len(f.outputs[k].indices)
          /\ e.outputs[k].fusing = f.outputs[k].fusing
    /\ \A p, q \in 1..Len(AllIndices(e)) :
          (AllIndices(e)[p] = AllIndices(e)[q]) <=> (AllIndices(f)[p] = AllIndices(f)[q])

\* C12: every matched expression can be rendered to its string form, and
\* parsing that string and matching it against the same ranks succeeds with
\* the same terms, term lengths and fusing groups, the ids equal up to one
\* consistent renaming.
C12_RoundTrip ==
    /\ op = "str" => rendered.ok
    /\ op = "rematch" => (again.ok /\ SameUpToRenaming(expr, again))

(* ------------------------------------------------------ the id capacity *)
\* the ids of an expression: its indices other than Ellipsis
Ids(e) == (input_indices(e) \cup output_indices(e)) \ {Ellipsis}

\* C14: every id of an expression returned by a successful parse followed by
\* a successful match, the fresh ids of match included, is smaller than the
\* number of letters of chars, so that the string of every term is defined.
C14_IdsWithinAlphabet ==
    (op \in {"match", "str", "rematch"} /\ expr.ok) =>
       /\ \A idx \in Ids(expr) : idx < NChars
       /\ op = "str" => rendered.ok

(* ----------------------------------------------- the fusing-group order *)
\* every range of term t lies within the term: 0 <= start <= end <= length
RangesWithin(t) ==
    \A g \in 1..Len(t.fusing) :
       /\ 0 <= t.fusing[g][1]
       /\ t.fusing[g][1] <= t.fusing[g][2]
       /\ t.fusing[g][2] <= Len(t.indices)

\* no range of term t starts before the previous range ends
RangesDisjoint(t) ==
    \A g \in 2..Len(t.fusing) : t.fusing[g][1] >= t.fusing[g - 1][2]

\* the starts of the ranges of term t increase strictly
StartsIncrease(t) ==
    \A g \in 2..Len(t.fusing) : t.fusing[g][1] > t.fusing[g - 1][1]

\* the output terms parse produced, and those match produced
ProducedTerms ==
    {parsed.outputs[k] : k \in 1..Len(parsed.outputs)}
       \cup {expr.outputs[k] : k \in 1..Len(expr.outputs)}

====
